---- MODULE Spec2Model ----
(***************************************************************************)
(* A model of the OTBI export organizer (src/app.py, src/utils_bip.py).    *)
(*                                                                         *)
(* Strings are sequences of one-character strings, so that sanitizing,     *)
(* lower-casing, suffix tests and path sorting are computed, not assumed.  *)
(* A path is a sequence of components, each component a string.            *)
(***************************************************************************)
EXTENDS Integers, Sequences, FiniteSets, TLC

VARIABLES
    upload,         \* the uploaded file (st.file_uploader), fixed for a run
    pc,             \* position of the script
    src,            \* names extracted under tmp/__src
    dirs,           \* directories that exist under tmp (paths)
    files,          \* files that exist under tmp: path -> content
    scratch,        \* tmp/__xdmz_<stem>: stem -> (entry name -> xml)
    xdmz_list,      \* find_by_ext(src, (".xdmz",))
    xdoz_list,      \* find_by_ext(src, (".xdoz",))
    scoped_map,     \* (parent_posix, stem_lower) -> model_root
    global_map,     \* stem_lower -> model_root
    created_paths,  \* list of created paths
    mi,             \* number of model bundles of xdmz_list already processed
    rj,             \* number of report bundles of xdoz_list already processed
    roots,          \* history: model_root given to the k-th model bundle
    routed,         \* history: [target, dest] chosen for the k-th report bundle
    outcome,        \* what the run showed: "none", "archive", "nothing", "error", "stopped"
    archive,        \* entry paths of the produced zip
    inp,            \* input of a function-level specification
    ret             \* result of the last call of a function-level specification

vars == <<upload, pc, src, dirs, files, scratch, xdmz_list, xdoz_list, scoped_map,
          global_map, created_paths, mi, rj, roots, routed, outcome, archive, inp, ret>>

None == <<"<None>">>

\* ------------------------------------------------------------------ characters

UpperChars == <<"A","B","C","D","E","F","G","H","I","J","K","L","M",
                "N","O","P","Q","R","S","T","U","V","W","X","Y","Z">>
LowerChars == <<"a","b","c","d","e","f","g","h","i","j","k","l","m",
                "n","o","p","q","r","s","t","u","v","w","x","y","z">>
DigitChars == <<"0","1","2","3","4","5","6","7","8","9">>

\* The characters of the model in code point order (str comparison).
CodePointOrder == <<" ", "-", ".", "/">> \o DigitChars \o UpperChars \o <<"_">> \o LowerChars

Range(s) == { s[k] : k \in DOMAIN s }

Chars == Range(CodePointOrder) \cup {"\n"}

\* ord(c), for the characters that are compared
OrdTable == [c \in Range(CodePointOrder) |->
                CHOOSE k \in DOMAIN CodePointOrder : CodePointOrder[k] = c]

Ord(c) == OrdTable[c]

\* str.lower(), character by character
LowerTable == [c \in Chars |->
                 IF c \in Range(UpperChars)
                 THEN LowerChars[CHOOSE k \in DOMAIN UpperChars : UpperChars[k] = c]
                 ELSE c]

LowerChar(c) == LowerTable[c]

Lower(s) == [k \in DOMAIN s |-> LowerChar(s[k])]

\* \w of re with flags=re.UNICODE, on the characters of the model
WordChars == Range(UpperChars) \cup Range(LowerChars) \cup Range(DigitChars) \cup {"_"}

IsWord(c) == c \in WordChars

EndsWith(s, suf) ==
    /\ Len(s) >= Len(suf)
    /\ SubSeq(s, Len(s) - Len(suf) + 1, Len(s)) = suf

StartsWith(s, pre) ==
    /\ Len(s) >= Len(pre)
    /\ SubSeq(s, 1, Len(pre)) = pre

\* str < str
RECURSIVE StrLess(_, _)
StrLess(a, b) ==
    IF a = <<>> THEN b # <<>>
    ELSE IF b = <<>> THEN FALSE
    ELSE IF a[1] # b[1] THEN Ord(a[1]) < Ord(b[1])
    ELSE StrLess(Tail(a), Tail(b))

\* str.strip(chars): drop leading and trailing characters that satisfy In
RECURSIVE LStrip(_, _)
LStrip(s, cs) == IF s # <<>> /\ s[1] \in cs THEN LStrip(Tail(s), cs) ELSE s

RECURSIVE RStrip(_, _)
RStrip(s, cs) ==
    IF s # <<>> /\ s[Len(s)] \in cs THEN RStrip(SubSeq(s, 1, Len(s) - 1), cs) ELSE s

Strip(s, cs) == RStrip(LStrip(s, cs), cs)

Whitespace == {" ", "\n"}

\* str(i) for i >= 0
RECURSIVE Dec(_)
Dec(n) == IF n < 10 THEN <<DigitChars[n + 1]>> ELSE Dec(n \div 10) \o <<DigitChars[(n % 10) + 1]>>

\* ------------------------------------------------------------------ naming & paths

\* re.sub(r"[^\w\-.]+", "_", name): every maximal run of other characters becomes one "_"
RECURSIVE SubOther(_, _)
SubOther(s, inRun) ==
    IF s = <<>> THEN <<>>
    ELSE IF IsWord(s[1]) \/ s[1] \in {"-", "."}
         THEN <<s[1]>> \o SubOther(Tail(s), FALSE)
         ELSE (IF inRun THEN <<>> ELSE <<"_">>) \o SubOther(Tail(s), TRUE)

\* re.sub(r"_+", "_", name)
RECURSIVE Collapse(_, _)
Collapse(s, prevUnderscore) ==
    IF s = <<>> THEN <<>>
    ELSE IF s[1] = "_"
         THEN (IF prevUnderscore THEN <<>> ELSE <<"_">>) \o Collapse(Tail(s), TRUE)
         ELSE <<s[1]>> \o Collapse(Tail(s), FALSE)

Unnamed == <<"u","n","n","a","m","e","d">>

\* a variant that trims "." and "_" before the substitutions instead of after them
safe_name_trim_first(name) ==
    LET n0 == Strip(IF name = None THEN <<>> ELSE name, Whitespace)
        n1 == Strip(n0, {".", "_"})
        n2 == SubOther(n1, FALSE)
        n3 == Collapse(n2, FALSE)
    IN  IF n3 = <<>> THEN Unnamed ELSE n3

safe_name(name) ==
    LET n0 == Strip(IF name = None THEN <<>> ELSE name, Whitespace)
        n1 == SubOther(n0, FALSE)
        n2 == Collapse(n1, FALSE)
        n3 == Strip(n2, {".", "_"})
    IN  IF n3 = <<>> THEN Unnamed ELSE n3

\* safe_path_from_rel: rel_dir.parts of a relative directory never holds "." or ""
safe_path_from_rel(rel_dir) == [k \in DOMAIN rel_dir |-> safe_name(rel_dir[k])]

\* PurePath.suffix / PurePath.stem of a file name
LastDot(name) ==
    LET ds == { k \in DOMAIN name : name[k] = "." }
    IN  IF ds = {} THEN 0 ELSE CHOOSE k \in ds : \A l \in ds : l <= k

HasSuffix(name) == 1 < LastDot(name) /\ LastDot(name) < Len(name)

PathSuffix(name) == IF HasSuffix(name) THEN SubSeq(name, LastDot(name), Len(name)) ELSE <<>>

PathStem(name) == IF HasSuffix(name) THEN SubSeq(name, 1, LastDot(name) - 1) ELSE name

\* Path.as_posix() of a relative path; Path(".") for the empty one
RECURSIVE Join(_)
Join(p) ==
    IF p = <<>> THEN <<>>
    ELSE IF Len(p) = 1 THEN p[1]
    ELSE p[1] \o <<"/">> \o Join(Tail(p))

as_posix(p) == IF p = <<>> THEN <<".">> ELSE Join(p)

Parent(p) == SubSeq(p, 1, Len(p) - 1)

Name(p) == p[Len(p)]

Exists(ds, fs, p) == p \in ds \/ p \in DOMAIN fs

\* all prefixes of p, p included: mkdir(parents=True, exist_ok=True)
Prefixes(p) == { SubSeq(p, 1, k) : k \in 0..Len(p) }

ensure_dir(ds, p) == ds \cup Prefixes(p)

\* mkdir(exist_ok=True) of the requested name, without the search for a free one
unique_subdir_reuse(ds, fs, parent, name) == Append(parent, safe_name(name))

\* unique_subdir(parent, name): the directory returned
RECURSIVE FirstFree(_, _, _, _, _)
FirstFree(ds, fs, parent, base, k) ==
    LET target == Append(parent, base \o <<"_">> \o Dec(k))
    IN  IF Exists(ds, fs, target) THEN FirstFree(ds, fs, parent, base, k + 1) ELSE target

unique_subdir(ds, fs, parent, name) ==
    LET base == safe_name(name)
        target == Append(parent, base)
    IN  IF Exists(ds, fs, target) THEN FirstFree(ds, fs, parent, base, 1) ELSE target

\* ------------------------------------------------------------------ sequences

\* the set S of strs as a list in ascending order
RECURSIVE SortedStrs(_)
SortedStrs(S) ==
    IF S = {} THEN <<>>
    ELSE LET m == CHOOSE x \in S : \A y \in S : y = x \/ StrLess(x, y)
         IN  <<m>> \o SortedStrs(S \ {m})

\* results.sort(key=lambda p: p.as_posix())
RECURSIVE SortedPaths(_)
SortedPaths(S) ==
    IF S = {} THEN <<>>
    ELSE LET m == CHOOSE x \in S : \A y \in S : y = x \/ StrLess(as_posix(x), as_posix(y))
         IN  <<m>> \o SortedPaths(S \ {m})

InSeq(x, s) == \E k \in DOMAIN s : s[k] = x

\* ------------------------------------------------------------------ content of files

Content(kind, of, entry, text) == [kind |-> kind, of |-> of, entry |-> entry, text |-> text]

BundleCopy(path) == Content("bundle", path, <<>>, <<>>)

EntryCopy(path, entry) == Content("entry", path, entry, <<>>)

SqlText(text) == Content("sql", <<>>, <<>>, text)

\* ------------------------------------------------------------------ search

DatamodelSuffix == <<"_","d","a","t","a","m","o","d","e","l",".","x","d","m">>
ExtXdmz == <<".","x","d","m","z">>
ExtXdoz == <<".","x","d","o","z">>
ExtXdrz == <<".","x","d","r","z">>
ExtSql == <<".","s","q","l">>

\* find_datamodel_files over an extracted tree (entry name -> xml)
find_datamodel_files(tree) ==
    SortedStrs({ n \in DOMAIN tree : EndsWith(Lower(n), DatamodelSuffix) })

\* find_by_ext over the extracted container (a set of paths)
find_by_ext(paths, ext) ==
    SortedPaths({ p \in paths : EndsWith(Lower(Name(p)), ext) })

\* ------------------------------------------------------------------ parsing

DefaultDataset == <<"D","a","t","a","s","e","t">>
DefaultValueSet == <<"V","a","l","u","e","S","e","t">>

\* the texts stripped, the empty ones kept
RECURSIVE sql_texts_unfiltered(_)
sql_texts_unfiltered(sqls) ==
    IF sqls = <<>> THEN <<>>
    ELSE << Strip(IF sqls[1] = None THEN <<>> ELSE sqls[1], Whitespace) >>
         \o sql_texts_unfiltered(Tail(sqls))

\* [(sn.text or "").strip() for sn in sql_nodes if (sn.text or "").strip()]
RECURSIVE sql_texts(_)
sql_texts(sqls) ==
    IF sqls = <<>> THEN <<>>
    ELSE LET t == Strip(IF sqls[1] = None THEN <<>> ELSE sqls[1], Whitespace)
         IN  (IF t # <<>> THEN <<t>> ELSE <<>>) \o sql_texts(Tail(sqls))

\* "\n\n".join(texts)
RECURSIVE JoinBlank(_)
JoinBlank(texts) ==
    IF texts = <<>> THEN <<>>
    ELSE IF Len(texts) = 1 THEN texts[1]
    ELSE texts[1] \o <<"\n", "\n">> \o JoinBlank(Tail(texts))

\* one loop of parse_datamodel_xdm over elements [name, sqls]
RECURSIVE parse_elements(_, _)
parse_elements(els, default) ==
    IF els = <<>> THEN <<>>
    ELSE LET e == els[1]
             nm == safe_name(IF e.name = None \/ e.name = <<>> THEN default ELSE e.name)
             texts == sql_texts(e.sqls)
         IN  (IF texts # <<>> THEN << <<nm, JoinBlank(texts)>> >> ELSE <<>>)
             \o parse_elements(Tail(els), default)

\* parse_datamodel_xdm of a file the parser could read: (datasets, valuesets)
parse_datamodel_xdm(xml) ==
    [datasets |-> parse_elements(xml.datasets, DefaultDataset),
     valuesets |-> parse_elements(xml.valuesets, DefaultValueSet)]

\* ------------------------------------------------------------------ writing

LvPrefix == <<"l","v","_">>

\* one loop of write_sql_otbi: st = [files, created]; header is "" for header_title=f""
RECURSIVE write_loop(_, _, _, _)
write_loop(st, out_dir, pairs, prefix) ==
    IF pairs = <<>> THEN st
    ELSE LET p == Append(out_dir, prefix \o pairs[1][1] \o ExtSql)
             text == Strip(pairs[1][2], Whitespace) \o <<"\n">>
             fs == [q \in DOMAIN st.files \cup {p} |->
                        IF q = p THEN SqlText(text) ELSE st.files[q]]
         IN  write_loop([files |-> fs, created |-> Append(st.created, p)],
                        out_dir, Tail(pairs), prefix)

\* write_sql_otbi(out_dir, datasets, valuesets): [files, created]
write_sql_otbi(fs, out_dir, parsed) ==
    LET st1 == write_loop([files |-> fs, created |-> <<>>], out_dir, parsed.datasets, <<>>)
    IN  write_loop(st1, out_dir, parsed.valuesets, LvPrefix)

\* ------------------------------------------------------------------ report bundles

\* A report bundle (.xdoz) is [zipok, names, xdo]: whether it is a zip, its namelist,
\* and for each .xdo entry its xml [ok, dm_urls, templates].

ReportXdo == <<"r","e","p","o","r","t",".","x","d","o">>
UnderscoreReportXdo == <<"_">> \o ReportXdo
ExtXdo == <<".","x","d","o">>

\* s.count("/")
CountSlash(s) == Cardinality({ k \in DOMAIN s : s[k] = "/" })

\* Path(n).name of a posix entry name
PName(n) ==
    LET t == RStrip(n, {"/"})
        sl == { k \in DOMAIN t : t[k] = "/" }
        last == IF sl = {} THEN 0 ELSE CHOOSE k \in sl : \A l \in sl : l <= k
    IN  SubSeq(t, last + 1, Len(t))

\* candidates.sort(key=lambda s: (s.count("/"), len(s))); candidates[0] (the sort is stable)
KeyLess(a, b) ==
    \/ CountSlash(a) < CountSlash(b)
    \/ CountSlash(a) = CountSlash(b) /\ Len(a) < Len(b)

FirstSorted(cands) ==
    cands[CHOOSE k \in DOMAIN cands :
            \A l \in DOMAIN cands :
                \/ KeyLess(cands[k], cands[l])
                \/ ~KeyLess(cands[l], cands[k]) /\ k <= l]

IsPreferredXdo(n) == EndsWith(Lower(n), ReportXdo) \/ EndsWith(Lower(n), UnderscoreReportXdo)

IsAnyXdo(n) == EndsWith(Lower(n), ExtXdo)

\* the candidates of read_report_datamodel_url
reader_candidates(names) ==
    LET pref == SelectSeq(names, IsPreferredXdo)
    IN  IF pref # <<>> THEN pref ELSE SelectSeq(names, IsAnyXdo)

\* read_report_datamodel_url: the url of the first dataModel element, or None
read_report_datamodel_url(bundle) ==
    IF ~bundle.zipok THEN None
    ELSE LET cands == reader_candidates(bundle.names)
         IN  IF cands = <<>> THEN None
             ELSE LET xml == bundle.xdo[FirstSorted(cands)]
                  IN  IF ~xml.ok THEN None
                      ELSE IF xml.dm_urls = <<>> THEN None
                      ELSE xml.dm_urls[1]

\* ------------------------------------------------------------------ templates

ReportTemplates == <<"r","e","p","o","r","t","_","t","e","m","p","l","a","t","e","s">>
MacOsx == <<"_","_","M","A","C","O","S","X","/">>

template_exts ==
    { <<".","r","t","f">>, <<".","x","s","l">>, <<".","x","l","s","x">>, <<".","x","l","s">>,
      <<".","x","p","t">>, <<".","x","l","t","x">>, <<".","x","l","s","m">>,
      <<".","p","p","t","x">>, <<".","e","t","e","x","t">>, <<".","h","t","m","l">>,
      <<".","x","h","t","m","l">> }

\* out = dir / name; i = 1; while out.exists(): out = dir / f"{stem}_{i}{suffix}"; i += 1
RECURSIVE NextFree(_, _, _, _, _)
NextFree(ds, fs, dir, name, k) ==
    LET out == Append(dir, PathStem(name) \o <<"_">> \o Dec(k) \o PathSuffix(name))
    IN  IF Exists(ds, fs, out) THEN NextFree(ds, fs, dir, name, k + 1) ELSE out

FreeFile(ds, fs, dir, name) ==
    IF Exists(ds, fs, Append(dir, name)) THEN NextFree(ds, fs, dir, name, 1)
    ELSE Append(dir, name)

IsTemplateEntry(n) ==
    /\ ~EndsWith(n, <<"/">>)
    /\ ~StartsWith(n, MacOsx)
    /\ \E ext \in template_exts : EndsWith(Lower(n), ext)

\* pass 1 (by extension) over names; st = [files, created]
RECURSIVE templates_pass1(_, _, _, _, _)
templates_pass1(st, ds, tpl_dir, of, names) ==
    IF names = <<>> THEN st
    ELSE LET n == names[1]
             out == FreeFile(ds, st.files, tpl_dir, PName(n))
             st1 == IF IsTemplateEntry(n)
                    THEN [files |-> (out :> EntryCopy(of, n)) @@ st.files,
                          created |-> Append(st.created, out)]
                    ELSE st
         IN  templates_pass1(st1, ds, tpl_dir, of, Tail(names))

\* the entry a <template url=...> names: exact, else the first with that basename
resolve_template(ref, names) ==
    IF InSeq(ref, names) THEN ref
    ELSE LET hit == { k \in DOMAIN names : Lower(PName(names[k])) = Lower(PName(ref)) }
         IN  IF hit = {} THEN None
             ELSE names[CHOOSE k \in hit : \A l \in hit : k <= l]

\* the output path of a referenced template (pass 2)
pass2_out(ds, fs, tpl_dir, entry) == FreeFile(ds, fs, tpl_dir, PName(entry))

\* pass 2 (by reference) over refs
RECURSIVE templates_pass2(_, _, _, _, _, _)
templates_pass2(st, ds, tpl_dir, of, names, refs) ==
    IF refs = <<>> THEN st
    ELSE LET entry == resolve_template(refs[1], names)
             out == pass2_out(ds, st.files, tpl_dir, entry)
             st1 == IF entry # None /\ entry # <<>>
                    THEN [files |-> (out :> EntryCopy(of, entry)) @@ st.files,
                          created |-> IF InSeq(out, st.created) THEN st.created
                                      ELSE Append(st.created, out)]
                    ELSE st
         IN  templates_pass2(st1, ds, tpl_dir, of, names, Tail(refs))

\* the candidates of extract_templates_from_xdoz
extractor_candidates(names) ==
    LET pref == SelectSeq(names, IsPreferredXdo)
    IN  IF pref # <<>> THEN pref ELSE SelectSeq(names, IsAnyXdo)

\* extract_templates_from_xdoz(xdo_file, dest_dir): [dirs, files, created]
extract_templates_from_xdoz(ds, fs, bundle, of, dest_dir) ==
    LET tpl_dir == Append(dest_dir, ReportTemplates)
        ds1 == ensure_dir(ds, tpl_dir)
        st0 == [files |-> fs, created |-> <<>>]
        st1 == templates_pass1(st0, ds1, tpl_dir, of, bundle.names)
        cands == extractor_candidates(bundle.names)
        xml == bundle.xdo[FirstSorted(cands)]
        st2 == IF cands = <<>> \/ ~xml.ok THEN st1
               ELSE templates_pass2(st1, ds1, tpl_dir, of, bundle.names, xml.templates)
        st == IF bundle.zipok THEN st2 ELSE st0
    IN  [dirs |-> ds1, files |-> st.files, created |-> st.created]

\* a walk from the container root down to the folder
RECURSIVE walk_root_first(_)
walk_root_first(rel_path) ==
    IF rel_path = <<>> THEN << as_posix(<<>>) >>
    ELSE walk_root_first(Parent(rel_path)) \o << as_posix(rel_path) >>

\* walk_up_rel_paths(rel_path): 'a/b/c' -> 'a/b/c', 'a/b', 'a', '.'
RECURSIVE walk_up_rel_paths(_)
walk_up_rel_paths(rel_path) ==
    IF rel_path = <<>> THEN << as_posix(<<>>) >>
    ELSE << as_posix(rel_path) >> \o walk_up_rel_paths(Parent(rel_path))

\* ------------------------------------------------------------------ inputs of a run

MaxModels == 2
MaxReports == 3

Str_m == <<"m">>
Str_A == <<"A">>
Str_B == <<"B">>
Str_C == <<"C">>
Name_m_xdmz == <<"m">> \o ExtXdmz
Name_m_XDMZ == <<"m",".","X","D","M","Z">>
Name_M_xdmz == <<"M">> \o ExtXdmz
Name_r_xdoz == <<"r">> \o ExtXdoz
Name_r1_xdoz == <<"r","_","1">> \o ExtXdoz
Name_ab_xdrz == <<"a"," ","b">> \o ExtXdrz
Name_x_xdmz == <<"x">> \o ExtXdmz
Name_ab_XDMZ == <<"a"," ","b",".","X","D","M","Z">>
Name_x_xdoz == <<"x">> \o ExtXdoz
Name_ab_XDOZ == <<"a"," ","b",".","X","D","O","Z">>
Name_x_zip == <<"x",".","z","i","p">>

Entry_a_dm == <<"a">> \o DatamodelSuffix
Entry_b_dm == <<"s","u","b","/","B","_","D","a","t","a","M","o","d","e","l",".","X","D","M">>
Entry_readme == <<"r","e","a","d","m","e">>
Entry_report == <<"r","_">> \o ReportXdo
Entry_t_rtf == <<"t",".","r","t","f">>
Entry_sub_t_rtf == <<"s","u","b","/","T",".","R","T","F">>

Url_m == <<"/","x","/","M",".","x","d","m">>
Url_q == <<"/","x","/","q",".","x","d","m">>

Sql_s == <<" ","s","\n">>
Sql_blank == <<" ","\n">>

Dataset(name, sqls) == [name |-> name, sqls |-> sqls]

Xdm(ok, datasets, valuesets) == [ok |-> ok, datasets |-> datasets, valuesets |-> valuesets]

Xdm_d == Xdm(TRUE, << Dataset(<<"d"," ","1">>, <<Sql_blank, Sql_s>>) >>, << Dataset(<<"v">>, <<Sql_s>>) >>)
Xdm_e == Xdm(TRUE, << Dataset(None, <<Sql_s, Sql_s>>), Dataset(<<"k">>, <<Sql_blank>>) >>, <<>>)
Xdm_blank == Xdm(TRUE, << Dataset(<<"d"," ","1">>, <<Sql_blank>>) >>, <<>>)
Xdm_broken == Xdm(FALSE, <<>>, <<>>)

\* A model bundle (.xdmz) is [zipok, tree]: whether it is a zip, and its entries.
ModelBundle(zipok, tree) == [zipok |-> zipok, tree |-> tree]

Tree_bad == ModelBundle(FALSE, <<>>)
Tree_none == ModelBundle(TRUE, (Entry_readme :> Xdm_broken))
Tree_d == ModelBundle(TRUE, (Entry_a_dm :> Xdm_d))
Tree_e == ModelBundle(TRUE, (Entry_b_dm :> Xdm_e))
Tree_blank == ModelBundle(TRUE, (Entry_a_dm :> Xdm_blank))
Tree_broken == ModelBundle(TRUE, (Entry_a_dm :> Xdm_broken) @@ (Entry_b_dm :> Xdm_e))

DirectTrees == {Tree_bad, Tree_none, Tree_d, Tree_e, Tree_blank, Tree_broken}
ContainerTrees == {Tree_bad, Tree_d, Tree_e}

Xdo(ok, dm_urls, templates) == [ok |-> ok, dm_urls |-> dm_urls, templates |-> templates]

ReportBundle(zipok, names, xdo) == [zipok |-> zipok, names |-> names, xdo |-> xdo]

Rep_bad == ReportBundle(FALSE, <<>>, <<>>)
Rep_m == ReportBundle(TRUE, <<Entry_report>>, (Entry_report :> Xdo(TRUE, <<Url_m>>, <<>>)))
Rep_q == ReportBundle(TRUE, <<Entry_report, Entry_sub_t_rtf>>,
                      (Entry_report :> Xdo(TRUE, <<Url_q>>, <<>>)))
Rep_mt == ReportBundle(TRUE, <<Entry_t_rtf, Entry_report>>,
                       (Entry_report :> Xdo(TRUE, <<Url_m, Url_q>>, <<Entry_t_rtf>>)))
Rep_noxdo == ReportBundle(TRUE, <<Entry_t_rtf>>, <<>>)
Rep_broken == ReportBundle(TRUE, <<Entry_t_rtf, Entry_report>>,
                           (Entry_report :> Xdo(FALSE, <<>>, <<>>)))
Rep_nourl == ReportBundle(TRUE, <<Entry_report>>, (Entry_report :> Xdo(TRUE, <<>>, <<Entry_t_rtf>>)))

DirectReports == {Rep_bad, Rep_m, Rep_q, Rep_mt, Rep_noxdo, Rep_broken, Rep_nourl}
ContainerReports == {Rep_q, Rep_mt, Rep_noxdo}

ModelPaths ==
    { <<Str_A, Name_m_xdmz>>, <<Str_A, Name_m_XDMZ>>, <<Str_A, Str_B, Name_m_xdmz>>,
      <<Name_M_xdmz>> }

ReportPaths ==
    { <<Str_A, Str_B, Name_r_xdoz>>, <<Str_A, Str_B, Name_r1_xdoz>>, <<Str_A, Name_r_xdoz>>,
      <<Str_C, Name_r_xdoz>> }

NoBundle == ModelBundle(TRUE, <<>>)
NoReport == ReportBundle(TRUE, <<>>, <<>>)

\* uploaded: its name, whether it is a zip, and what it holds by kind
Upload(name, zipok, tree, report, models, reports) ==
    [name |-> name, zipok |-> zipok, tree |-> tree, report |-> report,
     models |-> models, reports |-> reports]

DirectUploads ==
    { Upload(n, t.zipok, t.tree, NoReport, <<>>, <<>>) :
        n \in {Name_x_xdmz, Name_ab_XDMZ}, t \in DirectTrees }
    \cup { Upload(n, r.zipok, <<>>, r, <<>>, <<>>) :
        n \in {Name_x_xdoz, Name_ab_XDOZ}, r \in DirectReports }
    \cup { Upload(Name_x_zip, TRUE, <<>>, NoReport, <<>>, <<>>),
           Upload(Name_ab_xdrz, FALSE, <<>>, NoReport, <<>>, <<>>) }

IsContainerUpload(u) ==
    \E mp \in SUBSET ModelPaths, rp \in SUBSET ReportPaths :
        /\ Cardinality(mp) <= MaxModels
        /\ Cardinality(rp) <= MaxReports
        /\ \E mc \in [mp -> ContainerTrees], rc \in [rp -> ContainerReports] :
              u = Upload(Name_ab_xdrz, TRUE, <<>>, NoReport, mc, rc)

\* ------------------------------------------------------------------ the run (app.py main)

Str_OUT == <<"_","O","U","T">>
Str_Catalog == <<"C","a","t","a","l","o","g">>
Str_Orphan == <<"_","O","r","p","h","a","n">>

\* base_name = safe_name(Path(uploaded.name).stem); ext = Path(uploaded.name).suffix.lower()
base_name(u) == safe_name(PathStem(u.name))

ext_of(u) == Lower(PathSuffix(u.name))

\* out_root = tmp / f"{base_name}_OUT"
out_root(u) == << base_name(u) \o Str_OUT >>

Put(fs, p, c) == [q \in DOMAIN fs \cup {p} |-> IF q = p THEN c ELSE fs[q]]

SetKey(f, k, v) == [q \in DOMAIN f \cup {k} |-> IF q = k THEN v ELSE f[q]]

NoSubSpec == inp = <<>> /\ ret = <<>>

RunInit ==
    /\ upload \in DirectUploads \/ IsContainerUpload(upload)
    /\ pc = "start"
    /\ src = {}
    /\ dirs = {<<>>}
    /\ files = <<>>
    /\ scratch = <<>>
    /\ xdmz_list = <<>>
    /\ xdoz_list = <<>>
    /\ scoped_map = <<>>
    /\ global_map = <<>>
    /\ created_paths = <<>>
    /\ mi = 0
    /\ rj = 0
    /\ roots = <<>>
    /\ routed = <<>>
    /\ outcome = "none"
    /\ archive = {}
    /\ NoSubSpec

\* lines 193-212: working directories, then extract_ziplike(uploaded, src)
Extract ==
    /\ pc = "start"
    /\ dirs' = ensure_dir(dirs, out_root(upload))
    /\ IF upload.zipok
       THEN /\ src' = IF ext_of(upload) = ExtXdmz THEN { <<n>> : n \in DOMAIN upload.tree }
                      ELSE IF ext_of(upload) = ExtXdoz THEN { <<n>> : n \in Range(upload.report.names) }
                      ELSE DOMAIN upload.models \cup DOMAIN upload.reports
            /\ pc' = IF ext_of(upload) = ExtXdmz THEN "xdmz"
                     ELSE IF ext_of(upload) = ExtXdoz THEN "xdoz"
                     ELSE IF ext_of(upload) = ExtXdrz THEN "xdrz"
                     ELSE "other"
            /\ UNCHANGED outcome
       ELSE /\ pc' = "done"
            /\ outcome' = "stopped"
            /\ UNCHANGED src
    /\ UNCHANGED <<upload, files, scratch, xdmz_list, xdoz_list, scoped_map, global_map,
                   created_paths, mi, rj, roots, routed, archive, inp, ret>>

\* for dm in dm_files: parse_datamodel_xdm, write_sql_otbi; st = [files, created]
RECURSIVE write_models(_, _, _, _)
write_models(st, model_root, tree, dm_files) ==
    IF dm_files = <<>> THEN st
    ELSE LET xml == tree[dm_files[1]]
             w == write_sql_otbi(st.files, model_root, parse_datamodel_xdm(xml))
             st1 == IF xml.ok
                    THEN [files |-> w.files, created |-> st.created \o w.created]
                    ELSE st
         IN  write_models(st1, model_root, tree, Tail(dm_files))

\* lines 216-241, the else branch: [dirs, files, created]
xdmz_branch(u, ds, fs, created) ==
    LET dm_files == find_datamodel_files(u.tree)
        model_root == unique_subdir(ds, fs, out_root(u), base_name(u))
        catalog_dir == Append(model_root, Str_Catalog)
        fs1 == Put(fs, Append(catalog_dir, u.name), BundleCopy(<<u.name>>))
        st == write_models([files |-> fs1, created |-> created], model_root, u.tree, dm_files)
    IN  [dirs |-> ensure_dir(ds, catalog_dir), files |-> st.files, created |-> st.created]

\* lines 216-241: a model bundle uploaded directly
XdmzBranch ==
    /\ pc = "xdmz"
    /\ IF find_datamodel_files(upload.tree) = <<>>
       THEN UNCHANGED <<dirs, files, created_paths>>
       ELSE \E r \in {xdmz_branch(upload, dirs, files, created_paths)} :
                /\ dirs' = r.dirs
                /\ files' = r.files
                /\ created_paths' = r.created
    /\ pc' = "pack"
    /\ UNCHANGED <<upload, src, scratch, xdmz_list, xdoz_list, scoped_map, global_map,
                   mi, rj, roots, routed, outcome, archive, inp, ret>>

\* lines 244-257: [dirs, files, created]
xdoz_branch(u, ds, fs, created) ==
    LET report_root == unique_subdir(ds, fs, out_root(u), base_name(u))
        catalog_dir == Append(report_root, Str_Catalog)
        copy == Append(catalog_dir, u.name)
        fs1 == Put(fs, copy, BundleCopy(<<u.name>>))
        t == extract_templates_from_xdoz(ensure_dir(ds, catalog_dir), fs1,
                                         u.report, <<u.name>>, report_root)
    IN  [dirs |-> t.dirs, files |-> t.files, created |-> Append(created, copy) \o t.created]

\* lines 244-257: a report bundle uploaded directly
XdozBranch ==
    /\ pc = "xdoz"
    /\ \E r \in {xdoz_branch(upload, dirs, files, created_paths)} :
           /\ dirs' = r.dirs
           /\ files' = r.files
           /\ created_paths' = r.created
    /\ src' = src \cup { <<upload.name>> }
    /\ pc' = "pack"
    /\ UNCHANGED <<upload, scratch, xdmz_list, xdoz_list, scoped_map, global_map,
                   mi, rj, roots, routed, outcome, archive, inp, ret>>

\* lines 260-271: scan the container
ScanContainer ==
    /\ pc = "xdrz"
    /\ xdmz_list' = find_by_ext(src, ExtXdmz)
    /\ xdoz_list' = find_by_ext(src, ExtXdoz)
    /\ scoped_map' = <<>>
    /\ global_map' = <<>>
    /\ pc' = "container"
    /\ UNCHANGED <<upload, src, dirs, files, scratch, created_paths, mi, rj, roots, routed,
                   outcome, archive, inp, ret>>

\* the "with zipfile.ZipFile(xdmz_file)" of line 281 raises on a file that is no zip
nested_zip_raises(bundle) == ~bundle.zipok

\* scoped_map[key] = model_root
register_scoped(map, key, model_root) == SetKey(map, key, model_root)

\* a global map that keeps the first root registered for a stem
register_global_first(map, stem_lower, model_root) ==
    IF stem_lower \in DOMAIN map THEN map ELSE SetKey(map, stem_lower, model_root)

\* global_map[stem_lower] = model_root
register_global(map, stem_lower, model_root) == SetKey(map, stem_lower, model_root)

\* the scratch directory of a model bundle: tmp / f"__xdmz_{xdmz_file.stem}"
sub_tmp(xdmz_file) == PathStem(Name(xdmz_file))

\* lines 279-307 for one xdmz_file that is a zip
model_step(u, ds, fs, sc, smap, gmap, created, xdmz_file) ==
    LET bundle == u.models[xdmz_file]
        stem == PathStem(Name(xdmz_file))
        before == IF sub_tmp(xdmz_file) \in DOMAIN sc THEN sc[sub_tmp(xdmz_file)] ELSE <<>>
        extracted == bundle.tree @@ before
        dm_files == find_datamodel_files(extracted)
        rel_parent == Parent(xdmz_file)
        otbi_root == out_root(u) \o safe_path_from_rel(rel_parent)
        ds1 == ensure_dir(ds, otbi_root)
        model_root == unique_subdir(ds1, fs, otbi_root, stem)
        catalog_dir == Append(model_root, Str_Catalog)
        fs1 == Put(fs, Append(catalog_dir, Name(xdmz_file)), BundleCopy(xdmz_file))
        key == <<as_posix(rel_parent), Lower(stem)>>
        st == write_models([files |-> fs1, created |-> created], model_root, extracted, dm_files)
    IN  [scratch |-> SetKey(sc, sub_tmp(xdmz_file), extracted),
         dirs |-> ensure_dir(ds1, catalog_dir),
         files |-> st.files,
         scoped_map |-> register_scoped(smap, key, model_root),
         global_map |-> register_global(gmap, Lower(stem), model_root),
         created |-> st.created,
         model_root |-> model_root]

\* lines 275-307: one model bundle of the container
ModelStep ==
    /\ pc = "container"
    /\ mi < Len(xdmz_list)
    /\ IF nested_zip_raises(upload.models[xdmz_list[mi + 1]])
       THEN \* line 280, then lines 402-404
            /\ scratch' = SetKey(scratch, sub_tmp(xdmz_list[mi + 1]),
                                 IF sub_tmp(xdmz_list[mi + 1]) \in DOMAIN scratch
                                 THEN scratch[sub_tmp(xdmz_list[mi + 1])] ELSE <<>>)
            /\ pc' = "done"
            /\ outcome' = "error"
            /\ UNCHANGED <<dirs, files, scoped_map, global_map, created_paths, mi, roots>>
       ELSE \E r \in {model_step(upload, dirs, files, scratch, scoped_map, global_map,
                                 created_paths, xdmz_list[mi + 1])} :
                /\ scratch' = r.scratch
                /\ dirs' = r.dirs
                /\ files' = r.files
                /\ scoped_map' = r.scoped_map
                /\ global_map' = r.global_map
                /\ created_paths' = r.created
                /\ roots' = Append(roots, r.model_root)
                /\ mi' = mi + 1
                /\ UNCHANGED <<pc, outcome>>
    /\ UNCHANGED <<upload, src, xdmz_list, xdoz_list, rj, routed, archive, inp, ret>>

\* Path(dm_url).stem.lower()
dm_stem_of(dm_url) == Lower(PathStem(PName(dm_url)))

\* lines 326-331: the first scope of the walk that the scoped map holds, or None
RECURSIVE scoped_lookup(_, _, _)
scoped_lookup(map, scopes, dm_stem) ==
    IF scopes = <<>> THEN None
    ELSE IF <<scopes[1], dm_stem>> \in DOMAIN map THEN map[<<scopes[1], dm_stem>>]
    ELSE scoped_lookup(map, Tail(scopes), dm_stem)

\* lines 320-338: target_model_root, None when the report is an orphan
find_target(smap, gmap, rel_parent, dm_url) ==
    IF dm_url = None \/ dm_url = <<>> THEN None
    ELSE LET dm_stem == dm_stem_of(dm_url)
             hit == scoped_lookup(smap, walk_up_rel_paths(rel_parent), dm_stem)
         IN  IF hit # None THEN hit
             ELSE IF dm_stem \in DOMAIN gmap THEN gmap[dm_stem]
             ELSE None

\* a copy that never renames
catalog_dest_plain(ds, fs, catalog_dir, name) == Append(catalog_dir, name)

\* lines 341-346: the free destination of the report in the target's Catalog
catalog_dest(ds, fs, catalog_dir, name) == FreeFile(ds, fs, catalog_dir, name)

\* one _Orphan folder for the whole output tree
orphan_root_top(otbi_root) == <<otbi_root[1], Str_Orphan>>

\* line 338: the _Orphan folder of the report's own output folder
orphan_root(otbi_root) == Append(otbi_root, Str_Orphan)

\* lines 315-351 for one xdoz_file
report_step(u, ds, fs, smap, gmap, created, xdoz_file) ==
    LET bundle == u.reports[xdoz_file]
        rel_parent == Parent(xdoz_file)
        otbi_root == out_root(u) \o safe_path_from_rel(rel_parent)
        ds1 == ensure_dir(ds, otbi_root)
        dm_url == read_report_datamodel_url(bundle)
        found == find_target(smap, gmap, rel_parent, dm_url)
        target == IF found = None THEN orphan_root(otbi_root) ELSE found
        catalog_dir == Append(target, Str_Catalog)
        ds2 == ensure_dir(ds1, catalog_dir)
        dest == catalog_dest(ds2, fs, catalog_dir, Name(xdoz_file))
        fs1 == Put(fs, dest, BundleCopy(xdoz_file))
        t == extract_templates_from_xdoz(ds2, fs1, bundle, xdoz_file, target)
    IN  [dirs |-> t.dirs, files |-> t.files,
         created |-> Append(created, dest) \o t.created,
         target |-> target, dest |-> dest]

\* a report pass that does not wait for the end of the model pass
ReportStepEarly ==
    /\ pc = "container"
    /\ rj < Len(xdoz_list)
    /\ \E r \in {report_step(upload, dirs, files, scoped_map, global_map, created_paths,
                             xdoz_list[rj + 1])} :
           /\ dirs' = r.dirs
           /\ files' = r.files
           /\ created_paths' = r.created
           /\ routed' = Append(routed, [target |-> r.target, dest |-> r.dest])
    /\ rj' = rj + 1
    /\ UNCHANGED <<upload, pc, src, scratch, xdmz_list, xdoz_list, scoped_map, global_map,
                   mi, roots, outcome, archive, inp, ret>>

\* lines 311-351: one report bundle of the container
ReportStep ==
    /\ pc = "container"
    /\ mi = Len(xdmz_list)
    /\ rj < Len(xdoz_list)
    /\ \E r \in {report_step(upload, dirs, files, scoped_map, global_map, created_paths,
                             xdoz_list[rj + 1])} :
           /\ dirs' = r.dirs
           /\ files' = r.files
           /\ created_paths' = r.created
           /\ routed' = Append(routed, [target |-> r.target, dest |-> r.dest])
    /\ rj' = rj + 1
    /\ UNCHANGED <<upload, pc, src, scratch, xdmz_list, xdoz_list, scoped_map, global_map,
                   mi, roots, outcome, archive, inp, ret>>

\* lines 356-357: no branch for this extension
Unsupported ==
    /\ pc = "other"
    /\ pc' = "pack"
    /\ UNCHANGED <<upload, src, dirs, files, scratch, xdmz_list, xdoz_list, scoped_map,
                   global_map, created_paths, mi, rj, roots, routed, outcome, archive, inp, ret>>

\* zip_folder(folder): the arcname of every file under folder is its path relative to folder
zip_folder(fs, folder) ==
    { SubSeq(p, Len(folder) + 1, Len(p)) : p \in { q \in DOMAIN fs : StartsWith(q, folder) } }

\* "if created_paths:" of line 360
has_outputs(created) == created # <<>>

\* lines 353-400: pack + show
Pack ==
    /\ \/ pc = "pack"
       \/ pc = "container" /\ mi = Len(xdmz_list) /\ rj = Len(xdoz_list)
    /\ IF has_outputs(created_paths)
       THEN /\ archive' = zip_folder(files, out_root(upload))
            /\ outcome' = "archive"
       ELSE /\ outcome' = "nothing"
            /\ UNCHANGED archive
    /\ pc' = "done"
    /\ UNCHANGED <<upload, src, dirs, files, scratch, xdmz_list, xdoz_list, scoped_map,
                   global_map, created_paths, mi, rj, roots, routed, inp, ret>>

Next ==
    \/ Extract
    \/ XdmzBranch
    \/ XdozBranch
    \/ ScanContainer
    \/ ModelStep
    \/ ReportStep
    \/ Unsupported
    \/ Pack

Spec == RunInit /\ [][Next]_vars

\* ------------------------------------------------------------------ claims about a run

\* the reference read from the k-th report bundle, and its lower-cased stem
RefUrl(k) == read_report_datamodel_url(upload.reports[xdoz_list[k]])

HasRef(k) == RefUrl(k) # None /\ RefUrl(k) # <<>>

RefStem(k) == dm_stem_of(RefUrl(k))

\* the folders of the ancestor chain of the k-th report that hold a scoped entry for stem s
Scopes(k, s) ==
    { p \in Prefixes(Parent(xdoz_list[k])) : <<as_posix(p), s>> \in DOMAIN scoped_map }

Nearest(S) == CHOOSE p \in S : \A q \in S : Len(q) <= Len(p)

\* the model bundles (by position in scan order) whose lower-cased stem is s
ModelsWithStem(s) ==
    { i \in DOMAIN xdmz_list : Lower(PathStem(Name(xdmz_list[i]))) = s }

Last(S) == CHOOSE i \in S : \A l \in S : l <= i

OutFolder(path) == out_root(upload) \o safe_path_from_rel(Parent(path))

CopiesOf(path) == { p \in DOMAIN files : files[p] = BundleCopy(path) }

\* C1: a report whose referenced stem has a scoped entry somewhere in its ancestor chain
\* is routed to the root registered at the nearest such folder, and never to _Orphan.
C1_NearestScopeWins ==
    \A k \in DOMAIN routed :
        (HasRef(k) /\ Scopes(k, RefStem(k)) # {}) =>
            /\ routed[k].target =
                   scoped_map[<<as_posix(Nearest(Scopes(k, RefStem(k)))), RefStem(k)>>]
            /\ Name(routed[k].target) # Str_Orphan

\* a report of A/B was routed to the root registered one level up, in A, while the
\* global map holds another root for the stem
C1_Witness ==
    \E k \in DOMAIN routed :
        /\ HasRef(k)
        /\ Parent(xdoz_list[k]) = <<Str_A, Str_B>>
        /\ Scopes(k, RefStem(k)) # {}
        /\ Nearest(Scopes(k, RefStem(k))) = <<Str_A>>
        /\ <<as_posix(<<>>), RefStem(k)>> \in DOMAIN scoped_map
        /\ global_map[RefStem(k)] # routed[k].target
        /\ routed[k].target = scoped_map[<<Str_A, RefStem(k)>>]

\* C2: a report whose referenced stem has no scoped entry in its ancestor chain but is the
\* stem of some model bundle is routed to the root of the last such bundle in scan order.
C2_GlobalFallbackLastWins ==
    \A k \in DOMAIN routed :
        (HasRef(k) /\ Scopes(k, RefStem(k)) = {} /\ ModelsWithStem(RefStem(k)) # {}) =>
            /\ routed[k].target = roots[Last(ModelsWithStem(RefStem(k)))]
            /\ Name(routed[k].target) # Str_Orphan

\* a report of C was routed to the root of the second of two model bundles below A
C2_Witness ==
    \E k \in DOMAIN routed :
        /\ HasRef(k)
        /\ Parent(xdoz_list[k]) = <<Str_C>>
        /\ Scopes(k, RefStem(k)) = {}
        /\ Cardinality(ModelsWithStem(RefStem(k))) = 2
        /\ routed[k].target = roots[2]
        /\ roots[1] # roots[2]

IsOrphanCase(k) == ~HasRef(k) \/ ModelsWithStem(RefStem(k)) = {}

\* C3: a report with no reference, or whose stem matches no model bundle, is copied into
\* _Orphan/Catalog of its own folder's output folder and nowhere else.
C3_OrphanInOwnFolder ==
    \A k \in DOMAIN routed :
        IsOrphanCase(k) =>
            /\ routed[k].target = Append(OutFolder(xdoz_list[k]), Str_Orphan)
            /\ Parent(routed[k].dest) = Append(routed[k].target, Str_Catalog)
            /\ CopiesOf(xdoz_list[k]) = {routed[k].dest}
            /\ \A i \in DOMAIN roots : routed[k].target # roots[i]

\* with a model bundle in the container, a report of A/B that names an unknown stem and a
\* report with no reference are both orphans
C3_Witness ==
    /\ roots # <<>>
    /\ \E k \in DOMAIN routed :
        /\ HasRef(k) /\ IsOrphanCase(k)
        /\ Parent(xdoz_list[k]) = <<Str_A, Str_B>>
        /\ Name(routed[k].target) = Str_Orphan
    /\ \E k \in DOMAIN routed : ~HasRef(k) /\ Name(routed[k].target) = Str_Orphan

\* C5: every entry path of the archive begins with <sanitized-base-name>_OUT.
C5_ArchiveTopFolder ==
    outcome = "archive" => \A e \in archive : e[1] = base_name(upload) \o Str_OUT

\* C6: "nothing to do" is reported exactly when no file was written into the output tree,
\* and an archive holds every file written.
C6_NothingIffNoOutput ==
    (pc = "done" /\ outcome \in {"archive", "nothing"}) =>
        /\ (outcome = "nothing") <=> (DOMAIN files = {})
        /\ outcome = "archive" =>
               \A p \in DOMAIN files : SubSeq(p, 2, Len(p)) \in archive

\* the nested bundles of the container that can be processed
SoundBundles ==
    { m \in DOMAIN upload.models : upload.models[m].zipok } \cup DOMAIN upload.reports

\* C7: in a container run a failure of one nested item leaves every other nested bundle
\* processed, and the run produces the archive for them.
C7_NestedFailureIsolated ==
    (pc = "done" /\ upload.zipok /\ ext_of(upload) = ExtXdrz /\ SoundBundles # {}) =>
        /\ outcome = "archive"
        /\ \A b \in SoundBundles : CopiesOf(b) # {}

AllModelsRegistered ==
    /\ mi = Len(xdmz_list)
    /\ Len(xdmz_list) = Cardinality(DOMAIN upload.models)
    /\ \A p \in DOMAIN upload.models :
          /\ <<as_posix(Parent(p)), Lower(PathStem(Name(p)))>> \in DOMAIN scoped_map
          /\ Lower(PathStem(Name(p))) \in DOMAIN global_map

\* C12: every step that looks up a report starts with all model bundles of the container
\* registered, under their scoped key and under their stem; so a report that names the
\* stem of some model bundle is routed to a model root, wherever that bundle sorts.
C12_ModelsBeforeReports ==
    [][ rj' # rj =>
          /\ AllModelsRegistered
          /\ ~IsOrphanCase(rj + 1) => \E i \in DOMAIN roots : routed'[rj + 1].target = roots[i]
      ]_vars

\* a report was routed to the root of a model bundle that comes after it in path order
C12_Witness ==
    \E k \in DOMAIN routed, i \in DOMAIN roots :
        /\ StrLess(as_posix(xdoz_list[k]), as_posix(xdmz_list[i]))
        /\ HasRef(k)
        /\ RefStem(k) = Lower(PathStem(Name(xdmz_list[i])))
        /\ routed[k].target = roots[i]

\* the .sql files lying directly in the model root of the i-th model bundle
SqlUnder(i) == { p \in DOMAIN files : Parent(p) = roots[i] /\ files[p].kind = "sql" }

\* the .sql files that the data-model files of the i-th model bundle itself give
OwnSql(i) ==
    LET tree == upload.models[xdmz_list[i]].tree
    IN  Range(write_models([files |-> <<>>, created |-> <<>>], roots[i], tree,
                           find_datamodel_files(tree)).created)

\* C13: each model bundle of a container is extracted into a scratch area of its own, so
\* the scratch area of the bundle just processed holds that bundle's contents only, and
\* the .sql files in a model root are those of its own bundle's data-model files.
C13_ScratchIsolated ==
    /\ (pc = "container" /\ mi > 0) =>
           scratch[sub_tmp(xdmz_list[mi])] = upload.models[xdmz_list[mi]].tree
    /\ \A i \in DOMAIN roots : SqlUnder(i) = OwnSql(i)

Numbered(name, i) == PathStem(name) \o <<"_">> \o Dec(i) \o PathSuffix(name)

\* C8: every report is copied to a path of its own in the target's Catalog, under its
\* name or under <stem>_<i><suffix> for the smallest free i, and no Catalog file changes.
C8_CatalogCopiesDistinct ==
    /\ \A k \in DOMAIN routed :
        LET d == routed[k].dest
            cat == Append(routed[k].target, Str_Catalog)
            nm == Name(xdoz_list[k])
        IN  /\ Parent(d) = cat
            /\ d \in DOMAIN files /\ files[d] = BundleCopy(xdoz_list[k])
            /\ \A l \in DOMAIN routed : l # k => routed[l].dest # d
            /\ \/ Name(d) = nm
               \/ \E i \in 1..Cardinality(DOMAIN files) :
                    /\ Name(d) = Numbered(nm, i)
                    /\ Exists(dirs, files, Append(cat, nm))
                    /\ \A h \in 1..(i - 1) : Exists(dirs, files, Append(cat, Numbered(nm, h)))
    /\ \A i \in DOMAIN roots :
        LET p == roots[i] \o <<Str_Catalog, Name(xdmz_list[i])>>
        IN  p \in DOMAIN files /\ files[p] = BundleCopy(xdmz_list[i])

\* three reports named r.xdoz, r_1.xdoz and r.xdoz went to one Catalog: the last is r_2.xdoz
C8_Witness ==
    \E k \in DOMAIN routed :
        /\ Name(xdoz_list[k]) = Name_r_xdoz
        /\ Name(routed[k].dest) = Numbered(Name_r_xdoz, 2)
        /\ \A l \in DOMAIN routed : routed[l].target = routed[k].target

\* ------------------------------------------------------------------ function-level specifications

\* the variables of a run, unused by a function-level specification
RunIdle ==
    /\ upload = <<>>
    /\ src = {}
    /\ scratch = <<>>
    /\ xdmz_list = <<>>
    /\ xdoz_list = <<>>
    /\ scoped_map = <<>>
    /\ global_map = <<>>
    /\ mi = 0
    /\ rj = 0
    /\ roots = <<>>
    /\ routed = <<>>
    /\ outcome = "none"
    /\ archive = {}

RunVars == <<upload, src, scratch, xdmz_list, xdoz_list, scoped_map, global_map, mi, rj,
             roots, routed, outcome, archive>>

\* ---- unique_subdir, called again and again under one parent

MaxCalls == 3

Str_P == <<"P">>
Str_n == <<"n">>
DirParent == <<Str_P>>
DirNames == { Str_m, <<"m","_">>, <<" ","m">>, <<"m","_","1">>, Str_n }
DirPresent == { <<Str_P, Str_m>>, <<Str_P, <<"m","_","1">>>> }
FilePresent == <<Str_P, Str_n>>

\* inp = [dirs0, files0, names, pre]: the tree at the start, the names requested so far,
\* and the tree before the last call; ret = the directories returned so far
DirInit ==
    /\ RunIdle
    /\ pc = "dir"
    /\ \E ds \in SUBSET DirPresent : dirs = Prefixes(DirParent) \cup ds
    /\ files \in { <<>>, (FilePresent :> SqlText(<<>>)) }
    /\ created_paths = <<>>
    /\ inp = [dirs0 |-> dirs, files0 |-> files, names |-> <<>>, pre |-> dirs]
    /\ ret = <<>>

CallUniqueSubdir ==
    /\ pc = "dir"
    /\ Len(ret) < MaxCalls
    /\ \E name \in DirNames :
        \E target \in {unique_subdir(dirs, files, DirParent, name)} :
            /\ dirs' = ensure_dir(dirs, target)
            /\ ret' = Append(ret, target)
            /\ inp' = [inp EXCEPT !.names = Append(@, name), !.pre = dirs]
    /\ UNCHANGED <<pc, files, created_paths>>
    /\ UNCHANGED RunVars

SpecDir == DirInit /\ [][CallUniqueSubdir]_vars

\* C10: unique_subdir returns a directory that did not exist before the call and exists
\* after it; the directories returned under one parent are pairwise distinct; two calls
\* with one name in an empty parent return name, then name_1.
C10_UniqueSubdirFresh ==
    pc = "dir" =>
        /\ ret # <<>> =>
              /\ ~Exists(inp.pre, files, ret[Len(ret)])
              /\ ret[Len(ret)] \in dirs
              /\ Parent(ret[Len(ret)]) = DirParent
        /\ \A a, b \in DOMAIN ret : a # b => ret[a] # ret[b]
        /\ \A nm \in DirNames :
              (inp.dirs0 = Prefixes(DirParent) /\ inp.files0 = <<>> /\ inp.names = <<nm, nm>>) =>
                  ret = << Append(DirParent, safe_name(nm)),
                           Append(DirParent, safe_name(nm) \o <<"_", "1">>) >>

\* "m" was requested twice in an empty parent: m, then m_1
C10_Witness ==
    /\ pc = "dir"
    /\ inp.dirs0 = Prefixes(DirParent)
    /\ inp.names = <<Str_m, <<" ", "m">>, Str_m>>
    /\ ret = << <<Str_P, Str_m>>, <<Str_P, <<"m","_","1">>>>, <<Str_P, <<"m","_","2">>>> >>

\* ---- parse_datamodel_xdm followed by write_sql_otbi

MaxDatasets == 2

Str_R == <<"R">>
SqlRoot == <<Str_R>>
DatasetNames == { None, <<"d">>, <<"d", " ">>, <<"e", "/", "f">> }
SqlLists == { <<>>, <<Sql_blank>>, <<Sql_s>>, <<Sql_blank, Sql_s, Sql_s>> }
DatasetElements == { Dataset(n, q) : n \in DatasetNames, q \in SqlLists }
ValueSetElements == { Dataset(<<"d">>, <<Sql_s>>), Dataset(None, <<Sql_blank>>) }

SeqsUpTo(S, n) == UNION { [1..k -> S] : k \in 0..n }

\* inp = the data-model file; ret = the parsed lists
SqlInit ==
    /\ RunIdle
    /\ pc = "sql_parse"
    /\ dirs = Prefixes(SqlRoot)
    /\ files = <<>>
    /\ created_paths = <<>>
    /\ \E ok \in BOOLEAN, ds \in SeqsUpTo(DatasetElements, MaxDatasets),
          vs \in SeqsUpTo(ValueSetElements, 1) :
            inp = Xdm(ok, ds, vs)
    /\ ret = <<>>

\* parse_datamodel_xdm(dm), which raises on a file the parser cannot salvage
ParseXdm ==
    /\ pc = "sql_parse"
    /\ IF inp.ok
       THEN ret' = parse_datamodel_xdm(inp) /\ pc' = "sql_write"
       ELSE ret' = ret /\ pc' = "sql_failed"
    /\ UNCHANGED <<dirs, files, created_paths, inp>>
    /\ UNCHANGED RunVars

\* write_sql_otbi(root, datasets, valuesets)
WriteSql ==
    /\ pc = "sql_write"
    /\ \E w \in {write_sql_otbi(files, SqlRoot, ret)} :
        /\ files' = w.files
        /\ created_paths' = w.created
    /\ pc' = "sql_done"
    /\ UNCHANGED <<dirs, inp, ret>>
    /\ UNCHANGED RunVars

SqlNext == ParseXdm \/ WriteSql

SpecSql == SqlInit /\ [][SqlNext]_vars

\* a SQL child whose text has a character that is not white space
HasSql(e) == \E k \in DOMAIN e.sqls : \E c \in Range(e.sqls[k]) : c \notin Whitespace

NameOr(e, default) == safe_name(IF e.name = None THEN default ELSE e.name)

DatasetFile(e) == Append(SqlRoot, NameOr(e, DefaultDataset) \o ExtSql)

ValueSetFile(e) == Append(SqlRoot, LvPrefix \o NameOr(e, DefaultValueSet) \o ExtSql)

WithSql(els) == { k \in DOMAIN els : HasSql(els[k]) }

\* C9: after parsing and writing, the parsed list has one entry per dataset with a
\* non-empty SQL child, in order, each such dataset has its file <sanitized-name>.sql, and
\* no other file is written.
C9_OneFilePerDatasetWithSql ==
    /\ pc \in {"sql_write", "sql_done"} =>
          /\ Len(ret.datasets) = Cardinality(WithSql(inp.datasets))
          /\ \A k \in WithSql(inp.datasets) :
                ret.datasets[Cardinality({ l \in WithSql(inp.datasets) : l <= k })][1]
                    = NameOr(inp.datasets[k], DefaultDataset)
    /\ pc = "sql_done" =>
          /\ \A k \in WithSql(inp.datasets) :
                /\ DatasetFile(inp.datasets[k]) \in DOMAIN files
                /\ InSeq(DatasetFile(inp.datasets[k]), created_paths)
          /\ DOMAIN files =
                { DatasetFile(inp.datasets[k]) : k \in WithSql(inp.datasets) }
                \cup { ValueSetFile(inp.valuesets[k]) : k \in WithSql(inp.valuesets) }
          /\ Len(created_paths) =
                Cardinality(WithSql(inp.datasets)) + Cardinality(WithSql(inp.valuesets))

\* a file with a dataset that has SQL and a dataset with only blank SQL, of other names:
\* one file
C9_Witness ==
    /\ pc = "sql_done"
    /\ Len(inp.datasets) = 2
    /\ HasSql(inp.datasets[1]) /\ ~HasSql(inp.datasets[2])
    /\ inp.datasets[2].sqls # <<>>
    /\ inp.datasets[1].name = <<"e", "/", "f">>
    /\ inp.datasets[2].name = <<"d">>
    /\ inp.valuesets = <<>>
    /\ DOMAIN files = { <<Str_R, <<"e","_","f",".","s","q","l">>>> }

\* ---- extract_templates_from_xdoz

MaxEntries == 3
MaxRefs == 2

Str_T == <<"T">>
TplDest == <<Str_T>>
TplOf == <<Name_r_xdoz>>
Ref_x_t_rtf == <<"x", "/", "T", ".", "r", "t", "f">>
Ref_missing == <<"u", ".", "r", "t", "f">>
TplEntries == { Entry_t_rtf, Entry_sub_t_rtf, Entry_report, Entry_readme }
TplRefs == { Entry_t_rtf, Ref_x_t_rtf, Ref_missing }

NoRepeat(q) == \A a, b \in DOMAIN q : a # b => q[a] # q[b]

\* inp = the report bundle; ret = the list of created files
TplInit ==
    /\ RunIdle
    /\ pc = "tpl"
    /\ dirs = Prefixes(TplDest)
    /\ files = <<>>
    /\ created_paths = <<>>
    /\ \E zipok \in BOOLEAN, ok \in BOOLEAN, names \in SeqsUpTo(TplEntries, MaxEntries),
          refs \in SeqsUpTo(TplRefs, MaxRefs) :
            /\ NoRepeat(names)
            /\ inp = ReportBundle(zipok, names,
                        [n \in { m \in Range(names) : IsAnyXdo(m) } |-> Xdo(ok, <<>>, refs)])
    /\ ret = <<>>

ExtractTemplates ==
    /\ pc = "tpl"
    /\ \E t \in {extract_templates_from_xdoz(dirs, files, inp, TplOf, TplDest)} :
        /\ dirs' = t.dirs
        /\ files' = t.files
        /\ ret' = t.created
    /\ pc' = "tpl_done"
    /\ UNCHANGED <<created_paths, inp>>
    /\ UNCHANGED RunVars

SpecTpl == TplInit /\ [][ExtractTemplates]_vars

\* the entries that the references of the report definition resolve to
ReferencedEntries(bundle) ==
    IF ~bundle.zipok \/ extractor_candidates(bundle.names) = <<>> THEN {}
    ELSE LET xml == bundle.xdo[FirstSorted(extractor_candidates(bundle.names))]
         IN  IF ~xml.ok THEN {}
             ELSE { resolve_template(xml.templates[k], bundle.names) :
                        k \in DOMAIN xml.templates } \ {None}

\* C4: an entry matched by the extension scan and by a template reference is written to
\* report_templates once and is listed once among the created files.
C4_TemplateCopiedOnce ==
    pc = "tpl_done" =>
        \A n \in ReferencedEntries(inp) :
            IsTemplateEntry(n) =>
                /\ Cardinality({ p \in DOMAIN files : files[p] = EntryCopy(TplOf, n) }) = 1
                /\ Cardinality({ k \in DOMAIN ret : files[ret[k]] = EntryCopy(TplOf, n) }) = 1

\* ---- safe_name, applied to a name and then to its own result

MaxLen == 4

NameChars == { "a", "_", ".", "-", " ", "/" }
NameInputs == SeqsUpTo(NameChars, MaxLen) \cup {None}

\* inp = [name]: the string passed in; ret = the results of the successive applications
NameInit ==
    /\ RunIdle
    /\ pc = "name"
    /\ dirs = {<<>>}
    /\ files = <<>>
    /\ created_paths = <<>>
    /\ \E x \in NameInputs : inp = [name |-> x]
    /\ ret = <<>>

CallSafeName ==
    /\ pc = "name"
    /\ Len(ret) < 2
    /\ ret' = Append(ret, safe_name(IF ret = <<>> THEN inp.name ELSE ret[Len(ret)]))
    /\ UNCHANGED <<pc, dirs, files, created_paths, inp>>
    /\ UNCHANGED RunVars

SpecName == NameInit /\ [][CallSafeName]_vars

\* C11: safe_name is total and idempotent: its result is never the empty string (it is
\* "unnamed" when nothing survives), and applying it to its own result changes nothing.
C11_SafeNameIdempotent ==
    pc = "name" =>
        /\ \A k \in DOMAIN ret : ret[k] # <<>> /\ ret[k] # None
        /\ (ret # <<>> /\ (inp.name = None \/ Strip(Strip(inp.name, Whitespace), {".", "_"}) = <<>>))
              => ret[1] = Unnamed
        /\ Len(ret) = 2 => ret[2] = ret[1]

\* " /a." was sanitized to "a", and "a" again to "a"
C11_Witness ==
    /\ pc = "name"
    /\ inp.name = <<" ", "/", "a", ".">>
    /\ ret = << <<"a">>, <<"a">> >>

\* ---- the report definition file chosen by the reference reader and by the template extractor

MaxNames == 3

Str_X == <<"X">>
XdoDest == <<Str_X>>
XdoOf == <<Name_x_xdoz>>
Entry_sub_report == <<"s","u","b","/">> \o ReportXdo
Entry_myreport == <<"m","y">> \o ReportXdo
Entry_a_xdo == <<"a">> \o ExtXdo
Entry_b_xdo == <<"B",".","X","D","O">>
XdoEntries ==
    { ReportXdo, Entry_sub_report, Entry_report, Entry_myreport, Entry_a_xdo, Entry_b_xdo,
      Entry_t_rtf }

\* inp = the report bundle; every .xdo entry names itself as its data model and as its
\* only template, so what is read or copied tells which entry was opened.
\* ret = <<the url read, the paths the extractor created>>
XdoInit ==
    /\ RunIdle
    /\ pc = "xdo"
    /\ dirs = Prefixes(XdoDest)
    /\ files = <<>>
    /\ created_paths = <<>>
    /\ \E names \in SeqsUpTo(XdoEntries, MaxNames) :
            /\ NoRepeat(names)
            /\ inp = ReportBundle(TRUE, names,
                        [n \in { m \in Range(names) : IsAnyXdo(m) } |-> Xdo(TRUE, <<n>>, <<n>>)])
    /\ ret = <<>>

XdoRead ==
    /\ pc = "xdo"
    /\ ret' = <<read_report_datamodel_url(inp)>>
    /\ pc' = "xdo_read"
    /\ UNCHANGED <<dirs, files, created_paths, inp>>
    /\ UNCHANGED RunVars

XdoExtract ==
    /\ pc = "xdo_read"
    /\ \E t \in {extract_templates_from_xdoz(dirs, files, inp, XdoOf, XdoDest)} :
        /\ dirs' = t.dirs
        /\ files' = t.files
        /\ ret' = Append(ret, t.created)
    /\ pc' = "xdo_done"
    /\ UNCHANGED <<created_paths, inp>>
    /\ UNCHANGED RunVars

XdoNext == XdoRead \/ XdoExtract

SpecXdo == XdoInit /\ [][XdoNext]_vars

\* the entries whose file name is report.xdo or ends in _report.xdo, in any casing
NamedReport(n) ==
    PName(Lower(n)) = ReportXdo \/ EndsWith(Lower(n), UnderscoreReportXdo)

\* those entries if there are any, otherwise all entries ending in .xdo
XdoPool ==
    LET named == { n \in Range(inp.names) : NamedReport(n) }
    IN  IF named # {} THEN named ELSE { n \in Range(inp.names) : IsAnyXdo(n) }

\* the .xdo entries that the extractor copied as templates
XdoCopied ==
    { files[p].entry : p \in { q \in Range(ret[2]) : IsAnyXdo(files[q].entry) } }

\* C14: the report definition file opened is, among the entries named report.xdo or
\* *_report.xdo if there are any and among all .xdo entries otherwise, one with the fewest
\* separators and then the shortest path; the reader and the extractor open the same one.
C14_XdoChoice ==
    pc = "xdo_done" =>
        /\ XdoPool = {} => ret[1] = None /\ XdoCopied = {}
        /\ XdoPool # {} =>
              /\ ret[1] \in XdoPool
              /\ \A q \in XdoPool :
                    /\ CountSlash(q) >= CountSlash(ret[1])
                    /\ CountSlash(q) = CountSlash(ret[1]) => Len(q) >= Len(ret[1])
              /\ XdoCopied = {ret[1]}

====
